---- MODULE Spec2Model ----
(***************************************************************************)
(* Model of hvcc's Daisy generator, c2daisy.compile                         *)
(* (src/hvcc/generators/c2daisy/c2daisy.py).                                *)
(*                                                                         *)
(* One invocation of compile is a run of the program counter pc through    *)
(* the statements of the method.  The caller's externs object, the output  *)
(* directory on disk and the collaborators (copyright formatter, shutil,   *)
(* json2daisy, the parameter binder, jinja2) are the environment.  A       *)
(* collaborator is deterministic: `fault` names the one collaborator that  *)
(* raises whenever it is invoked, or "none".                               *)
(***************************************************************************)
EXTENDS Integers, Sequences, FiniteSets, TLC

\* ------------------------------------------------------------------ bounds
MaxCalls == 2          \* consecutive compile calls with the same arguments
MaxParams == 2         \* length of externs['parameters']['out']

\* ------------------------------------------------------- program constants
MaxBlocksize == 256
MinBlocksize == 1
DefaultSamplerate == 48000
DefaultLibdaisyLevels == 2

hv_midi_messages ==
    { "__hv_noteout", "__hv_ctlout", "__hv_polytouchout", "__hv_pgmout",
      "__hv_touchout", "__hv_bendout", "__hv_midiout", "__hv_midioutport" }

\* ------------------------------------------------------ Python data model
\* A dict is a function whose domain is its key set; {} and None are both <<>>
\* where only truthiness is read.  An optional scalar is None or Some(v).
None == <<>>
Some(v) == <<v>>

Get(d, k, default) == IF k \in DOMAIN d THEN d[k] ELSE default

\* d.get(k) for a scalar value: None when the key is absent
GetOpt(d, k) == IF k \in DOMAIN d THEN Some(d[k]) ELSE None

\* d[k] = v
Put(d, k, v) == [x \in (DOMAIN d) \cup {k} |-> IF x = k THEN v ELSE d[x]]

\* truthiness of a dict, of an optional string, of an optional integer
TruthyDict(d) == DOMAIN d # {}
TruthyStr(o) == o # None /\ o[1] # ""
TruthyInt(o) == o # None /\ o[1] # 0

Min(a, b) == IF a <= b THEN a ELSE b
Max(a, b) == IF a >= b THEN a ELSE b

\* values of the hardware metadata's libdaisy_path, tagged with their Python type
Levels(n) == [type |-> "int", n |-> n, s |-> ""]
PathStr(s) == [type |-> "str", n |-> 0, s |-> s]
OtherValue == [type |-> "float", n |-> 0, s |-> ""]

\* the value stored under patch_meta["daisy"]: a JSON object or JSON null
JsonObject(d) == [type |-> "object", d |-> d]
JsonNull == [type |-> "null", d |-> <<>>]

\* ------------------------------------------------------------ pure helpers
\* lines 94-103: the elif ladder over the sample-rate tiers
ResolveSamplerate_strict(samplerate) ==
    IF samplerate > 96000 THEN 96000
    ELSE IF samplerate > 48000 THEN 48000
    ELSE IF samplerate > 32000 THEN 32000
    ELSE IF samplerate > 16000 THEN 16000
    ELSE 8000

ResolveSamplerate(samplerate) ==
    IF samplerate >= 96000 THEN 96000
    ELSE IF samplerate >= 48000 THEN 48000
    ELSE IF samplerate >= 32000 THEN 32000
    ELSE IF samplerate >= 16000 THEN 16000
    ELSE 8000

\* lines 106-110: blocksize is daisy_meta.get('blocksize'), None when absent
ResolveBlocksize(blocksize) ==
    IF TruthyInt(blocksize)
    THEN Some(Max(Min(MaxBlocksize, blocksize[1]), MinBlocksize))
    ELSE None

\* lines 78-79: t is kept unless some element y of t equals some reserved name x
IsMidiMessage(t) == \E x \in hv_midi_messages : \E i \in DOMAIN t : t[i] = x

FilterOut(out) == SelectSeq(out, LAMBDA t : ~IsMidiMessage(t))

\* lines 72-75: which json2daisy resolver is called, and with what argument
SelectResolver_board_first(daisy_meta, board) ==
    IF "board" \in DOMAIN daisy_meta \/ ~TruthyStr(GetOpt(daisy_meta, "board_file"))
    THEN <<"generate_header_from_name", board>>
    ELSE <<"generate_header_from_file", daisy_meta["board_file"]>>

SelectResolver(daisy_meta, board) ==
    IF TruthyStr(GetOpt(daisy_meta, "board_file"))
    THEN <<"generate_header_from_file", daisy_meta["board_file"]>>
    ELSE <<"generate_header_from_name", board>>

\* json2daisy.generate_header_from_file / generate_header_from_name: the header
\* text and the board description are determined by the resolver and its argument
GenerateHeader(call) ==
    [ header |-> <<"header", call[1], call[2]>>,
      board_info |-> [ name |-> call[2], components |-> <<"knob1", "led1">>,
                       aliases |-> <<"knob">>, channels |-> 2, has_midi |-> TRUE ] ]

\* parameters.parse_parameters: the glue is a function of the parameters and
\* the board's components and aliases
parse_parameters(params, components, aliases, object_name) ==
    [ parameters |-> params["in"], output_parameters |-> params["out"],
      components |-> components, aliases |-> aliases, name |-> object_name ]

\* jinja2's Template.render: the text is determined by template and context
Render(template, context) == <<template, context>>

\* line 134: f'{"../" * path}libdaisy' as the list of its path components
RECURSIVE Repeat(_, _)
Repeat(s, n) == IF n <= 0 THEN <<>> ELSE <<s>> \o Repeat(s, n - 1)

LibdaisyLevelsPath(n) == Repeat("../", n) \o <<"libdaisy">>

\* os.path.join, os.path.abspath (relative to the working directory), basename
Join(a, b) == a \o "/" \o b
Abspath(p) == "/cwd/" \o p

\* ------------------------------------------------------------------ inputs
\* {} or {k: v} for each v
Opt(k, vals) == {<<>>} \cup {k :> v : v \in vals}

RECURSIVE SeqsUpTo(_, _)
SeqsUpTo(S, n) ==
    IF n = 0 THEN {<<>>}
    ELSE LET shorter == SeqsUpTo(S, n - 1)
         IN shorter \cup {Append(s, x) : s \in {t \in shorter : Len(t) = n - 1}, x \in S}

\* output parameter descriptors t = (name, attribute)
OutParams ==
    { <<"gain", "float">>, <<"__hv_noteout", "float">>,
      <<"__hv_noteout_extra", "float">>, <<"led", "__hv_ctlout">> }

MkExterns(out) == [parameters |-> [in |-> << <<"knob", "float">> >>, out |-> out]]

ExternsSet == {MkExterns(out) : out \in SeqsUpTo(OutParams, MaxParams)}

DefaultExterns == MkExterns(<< <<"gain", "float">> >>)

SampleRates ==
    { 0, 7999, 8000, 15999, 16000, 31999, 32000, 44100, 47999, 48000,
      95999, 96000, 192000 }

Blocksizes == { -4, 0, 1, 48, 256, 257 }

\* the "daisy" hardware metadata: each family varies the keys one step reads
DaisyMetas ==
    {a @@ b : a \in Opt("samplerate", SampleRates), b \in Opt("blocksize", Blocksizes)}
    \cup {a @@ b : a \in Opt("board", {"patch"}),
                   b \in Opt("board_file", {"", "custom.json"})}
    \cup {a @@ b : a \in Opt("libdaisy_path",
                             {Levels(-1), Levels(0), Levels(3),
                              PathStr("/opt/libdaisy"), OtherValue}),
                   b \in Opt("linker_script", {"", "sram.lds"})}
    \cup {a @@ b @@ c : a \in Opt("bootloader", {"BOOT_SRAM"}),
                        b \in Opt("debug_printing", {TRUE}),
                        c \in Opt("usb_midi", {TRUE})}

\* patch_meta: None, or a dict with an optional name and an optional "daisy"
PatchMetas ==
    {n @@ d : n \in Opt("name", {"Test"}),
              d \in Opt("daisy", {JsonNull} \cup {JsonObject(x) : x \in DaisyMetas})}

DefaultPatchMeta == ("name" :> "Test") @@ ("daisy" :> JsonObject(<<>>))

MkArgs(patch_meta, ext) ==
    [ c_src_dir |-> "c", out_dir |-> "out", externs |-> ext, patch_name |-> "heavy",
      patch_meta |-> patch_meta, num_input_channels |-> 2, num_output_channels |-> 2,
      copyright |-> None ]

ArgsSet ==
    {MkArgs(pm, DefaultExterns) : pm \in PatchMetas}
    \cup {MkArgs(DefaultPatchMeta, e) : e \in ExternsSet}

\* the collaborators that can raise
FaultPoints ==
    { "copyright", "rmtree", "copy_static", "copy_source", "generate_header",
      "parse_parameters", "write_header", "render_cpp", "render_makefile" }

\* ------------------------------------------------------------- file system
\* the directory out_dir: a map from relative path to the file's data and the
\* number of the compile call that wrote it (0: it was there before any call)
File(kind, text, n) == [data |-> [kind |-> kind, text |-> text], call |-> n]

StaticAssets == {"static_asset"}
CSourceFiles == {"Heavy_heavy.c"}

StaleTree == [p \in {"old.bin", "source/Makefile"} |-> File("stale", <<>>, 0)]

Bytes(t) == [p \in DOMAIN t |-> t[p].data]

\* ------------------------------------------------------------------- state
VARIABLES
    args,             \* the arguments every call is made with
    fault,            \* the collaborator that raises when invoked, or "none"
    externs,          \* the caller's externs object (passed by reference)
    out_exists, tree, \* the output directory on disk
    pc, ncalls,       \* position in compile; number of calls started
    frame,            \* the local variables of the running call
    exc,              \* the exception in flight, None or Some(e)
    result,           \* the value returned by the last call, None before it returns
    done,             \* steps of the try block completed by the running call
    resolver_calls,   \* json2daisy calls made by the running call
    binder_args,      \* output-parameter lists passed to parse_parameters
    renders,          \* template renders invoked by the running call
    externs_before,   \* externs as it was when the running call was entered
    existed_before,   \* whether out_dir existed when the running call was entered
    history           \* per finished call: outcome and the directory it left

vars ==
    << args, fault, externs, out_exists, tree, pc, ncalls, frame, exc, result,
       done, resolver_calls, binder_args, renders, externs_before, existed_before,
       history >>

inputs == <<args, fault>>
disk == <<out_exists, tree>>
calls == <<ncalls, externs_before, existed_before, history, result>>
logs == <<resolver_calls, binder_args, renders>>

Init ==
    /\ args \in ArgsSet
    /\ fault \in FaultPoints \cup {"none"}
    /\ externs = args.externs
    /\ \/ out_exists = FALSE /\ tree = <<>>
       \/ out_exists = TRUE /\ tree = StaleTree
    /\ pc = "idle"
    /\ ncalls = 0
    /\ frame = <<>>
    /\ exc = None
    /\ result = None
    /\ done = <<>>
    /\ resolver_calls = <<>>
    /\ binder_args = <<>>
    /\ renders = <<>>
    /\ externs_before = args.externs
    /\ existed_before = FALSE
    /\ history = <<>>

Error(type, message) == [type |-> type, message |-> message]

Outcome(how) ==
    [outcome |-> how, existed |-> existed_before, exists |-> out_exists,
     bytes |-> Bytes(tree)]

\* an exception raised inside the try block (line 59) reaches line 162
Throw(e) == pc' = "except" /\ exc' = Some(e)

\* an exception raised before the try block leaves compile
Escape(e) ==
    /\ pc' = "raised"
    /\ exc' = Some(e)
    /\ history' = Append(history, Outcome("raised"))

\* ----------------------------------------------------------------- actions
\* lines 43-53: entry, out_dir, patch_name, daisy_meta, board
Enter ==
    /\ pc \in {"idle", "returned", "raised"}
    /\ ncalls < MaxCalls
    /\ ncalls' = ncalls + 1
    /\ externs_before' = externs
    /\ existed_before' = out_exists
    /\ result' = None
    /\ done' = <<>>
    /\ resolver_calls' = <<>>
    /\ binder_args' = <<>>
    /\ renders' = <<>>
    /\ LET out_dir == Join(args.out_dir, "daisy")
           patch_meta == args.patch_meta
           patch_name == IF TruthyDict(patch_meta)
                         THEN Get(patch_meta, "name", args.patch_name)
                         ELSE args.patch_name
           daisy == IF TruthyDict(patch_meta)
                    THEN Get(patch_meta, "daisy", JsonObject(<<>>))
                    ELSE JsonObject(<<>>)
       IN IF daisy.type # "object"
          THEN \* line 53: daisy_meta.get on a value that is no dict
               /\ pc' = "raised"
               /\ exc' = Some(Error("AttributeError", "no attribute 'get'"))
               /\ history' = Append(history,
                                    [outcome |-> "raised", existed |-> out_exists,
                                     exists |-> out_exists, bytes |-> Bytes(tree)])
               /\ frame' = [out_dir |-> out_dir, patch_name |-> patch_name]
          ELSE /\ pc' = "copyright"
               /\ exc' = None
               /\ history' = history
               /\ frame' = [out_dir |-> out_dir, patch_name |-> patch_name,
                            daisy_meta |-> daisy.d,
                            board |-> Get(daisy.d, "board", "pod")]
    /\ UNCHANGED <<inputs, externs, disk>>

\* line 55: copyright_manager.get_copyright_for_c, outside the try block
Copyright ==
    /\ pc = "copyright"
    /\ IF fault = "copyright"
       THEN /\ Escape(Error("CopyrightError", "copyright formatter failed"))
            /\ UNCHANGED frame
       ELSE /\ pc' = "remove"
            /\ frame' = Put(frame, "copyright_c", <<"copyright", args.copyright>>)
            /\ UNCHANGED <<exc, history>>
    /\ UNCHANGED <<inputs, externs, disk, ncalls, externs_before, existed_before,
                   result, done, logs>>

\* lines 61-63 with the files removed and the directory itself left in place
RemoveExisting_files_only ==
    /\ pc = "remove"
    /\ frame' = Put(frame, "out_dir", Abspath(frame.out_dir))
    /\ IF out_exists /\ fault = "rmtree"
       THEN /\ Throw(Error("OSError", "rmtree failed"))
            /\ UNCHANGED <<disk, done>>
       ELSE /\ tree' = <<>>
            /\ pc' = "copy_static"
            /\ done' = Append(done, "remove")
            /\ UNCHANGED <<out_exists, exc>>
    /\ UNCHANGED <<inputs, externs, calls, logs>>

\* lines 61-63 with the removal left out
RemoveExisting_keep ==
    /\ pc = "remove"
    /\ frame' = Put(frame, "out_dir", Abspath(frame.out_dir))
    /\ IF out_exists /\ fault = "rmtree"
       THEN /\ Throw(Error("OSError", "rmtree failed"))
            /\ UNCHANGED <<disk, done>>
       ELSE /\ pc' = "copy_static"
            /\ done' = Append(done, "remove")
            /\ UNCHANGED <<disk, exc>>
    /\ UNCHANGED <<inputs, externs, calls, logs>>

\* lines 61-63: abspath, and rmtree when the directory exists
RemoveExisting ==
    /\ pc = "remove"
    /\ frame' = Put(frame, "out_dir", Abspath(frame.out_dir))
    /\ IF out_exists
       THEN IF fault = "rmtree"
            THEN /\ Throw(Error("OSError", "rmtree failed"))
                 /\ UNCHANGED <<disk, done>>
            ELSE /\ out_exists' = FALSE
                 /\ tree' = <<>>
                 /\ pc' = "copy_static"
                 /\ done' = Append(done, "remove")
                 /\ UNCHANGED exc
       ELSE /\ pc' = "copy_static"
            /\ done' = Append(done, "remove")
            /\ UNCHANGED <<disk, exc>>
    /\ UNCHANGED <<inputs, externs, calls, logs>>

\* line 66: shutil.copytree(static, out_dir); the destination must not exist
CopyStatic ==
    /\ pc = "copy_static"
    /\ IF fault = "copy_static" \/ out_exists
       THEN /\ Throw(IF out_exists THEN Error("FileExistsError", frame.out_dir)
                     ELSE Error("OSError", "copytree of static failed"))
            /\ UNCHANGED <<disk, done>>
       ELSE /\ out_exists' = TRUE
            /\ tree' = [p \in StaticAssets |-> File("static", <<>>, ncalls)]
            /\ pc' = "copy_source"
            /\ done' = Append(done, "copy_static")
            /\ UNCHANGED exc
    /\ UNCHANGED <<inputs, externs, frame, calls, logs>>

\* line 70 with the exception swallowed
CopySource_swallow ==
    /\ pc = "copy_source"
    /\ frame' = Put(frame, "source_dir", Join(frame.out_dir, "source"))
    /\ pc' = "generate_header"
    /\ IF fault = "copy_source"
       THEN UNCHANGED <<disk, done>>
       ELSE /\ tree' = [p \in {Join("source", f) : f \in CSourceFiles} |->
                           File("c_src", <<>>, ncalls)] @@ tree
            /\ done' = Append(done, "copy_source")
            /\ UNCHANGED out_exists
    /\ UNCHANGED <<inputs, externs, exc, calls, logs>>

\* lines 69-70: shutil.copytree(c_src_dir, source_dir)
CopySource ==
    /\ pc = "copy_source"
    /\ frame' = Put(frame, "source_dir", Join(frame.out_dir, "source"))
    /\ IF fault = "copy_source"
       THEN /\ Throw(Error("OSError", "copytree of c_src_dir failed"))
            /\ UNCHANGED <<disk, done>>
       ELSE /\ tree' = [p \in {Join("source", f) : f \in CSourceFiles} |->
                           File("c_src", <<>>, ncalls)] @@ tree
            /\ pc' = "generate_header"
            /\ done' = Append(done, "copy_source")
            /\ UNCHANGED <<out_exists, exc>>
    /\ UNCHANGED <<inputs, externs, calls, logs>>

\* lines 72-75: the board header and the board description from json2daisy
GenerateHeaderFile ==
    /\ pc = "generate_header"
    /\ LET call == SelectResolver(frame.daisy_meta, frame.board)
           got == GenerateHeader(call)
       IN /\ resolver_calls' = Append(resolver_calls, call)
          /\ IF fault = "generate_header"
             THEN /\ Throw(Error("GeneratorError", "json2daisy failed"))
                  /\ UNCHANGED <<frame, done>>
             ELSE /\ frame' = Put(Put(frame, "header", got.header),
                                  "board_info", got.board_info)
                  /\ pc' = "filter"
                  /\ done' = Append(done, "generate_header")
                  /\ UNCHANGED exc
    /\ UNCHANGED <<inputs, externs, disk, calls, binder_args, renders>>

\* lines 78-79: externs['parameters']['out'] is assigned the filtered list
FilterExterns ==
    /\ pc = "filter"
    /\ externs' = [externs EXCEPT !["parameters"]["out"] = FilterOut(@)]
    /\ pc' = "parse_parameters"
    /\ done' = Append(done, "filter")
    /\ UNCHANGED <<inputs, disk, frame, exc, calls, logs>>

\* lines 81-82: the binder is given externs['parameters']
ParseParameters ==
    /\ pc = "parse_parameters"
    /\ binder_args' = Append(binder_args, externs["parameters"]["out"])
    /\ IF fault = "parse_parameters"
       THEN /\ Throw(Error("BindingError", "parse_parameters failed"))
            /\ UNCHANGED <<frame, done>>
       ELSE /\ frame' = Put(frame, "component_glue",
                            parse_parameters(externs["parameters"],
                                             frame.board_info.components,
                                             frame.board_info.aliases, "hardware"))
            /\ pc' = "context"
            /\ done' = Append(done, "parse_parameters")
            /\ UNCHANGED exc
    /\ UNCHANGED <<inputs, externs, disk, calls, resolver_calls, renders>>

\* lines 83-112: the context of the primary source template
BuildContext ==
    /\ pc = "context"
    /\ LET daisy_meta == frame.daisy_meta
           board_info == frame.board_info
           patch_name == frame.patch_name
           samplerate == Get(daisy_meta, "samplerate", DefaultSamplerate)
           blocksize == GetOpt(daisy_meta, "blocksize")
           g1 == Put(frame.component_glue, "class_name", board_info.name)
           g2 == Put(g1, "patch_name", patch_name)
           g3 == Put(g2, "header", "HeavyDaisy_" \o patch_name \o ".hpp")
           g4 == Put(g3, "max_channels", board_info.channels)
           g5 == Put(g4, "num_output_channels", args.num_output_channels)
           g6 == Put(g5, "has_midi", board_info.has_midi)
           g7 == Put(g6, "debug_printing", Get(daisy_meta, "debug_printing", FALSE))
           g8 == Put(g7, "usb_midi", Get(daisy_meta, "usb_midi", FALSE))
           g9 == Put(g8, "samplerate", ResolveSamplerate(samplerate))
           g10 == Put(g9, "blocksize", ResolveBlocksize(blocksize))
           g11 == Put(g10, "copyright", frame.copyright_c)
       IN frame' = Put(frame, "component_glue", g11)
    /\ pc' = "write_header"
    /\ done' = Append(done, "context")
    /\ UNCHANGED <<inputs, externs, disk, exc, calls, logs>>

\* lines 114-116: the generated header is written into source/
WriteHeader ==
    /\ pc = "write_header"
    /\ LET name == "HeavyDaisy_" \o frame.patch_name \o ".hpp"
       IN /\ frame' = Put(frame, "daisy_h_path", Join(frame.source_dir, name))
          /\ IF fault = "write_header"
             THEN /\ Throw(Error("OSError", "cannot write header"))
                  /\ UNCHANGED <<disk, done>>
             ELSE /\ tree' = Put(tree, Join("source", name),
                                 File("header", frame.header, ncalls))
                  /\ pc' = "render_cpp"
                  /\ done' = Append(done, "write_header")
                  /\ UNCHANGED <<out_exists, exc>>
    /\ UNCHANGED <<inputs, externs, calls, logs>>

\* lines 118-124: HeavyDaisy.cpp is rendered against component_glue and written
RenderCpp ==
    /\ pc = "render_cpp"
    /\ LET name == "HeavyDaisy_" \o frame.patch_name \o ".cpp"
           context == frame.component_glue
       IN /\ renders' = Append(renders, [template |-> "HeavyDaisy.cpp",
                                         context |-> context])
          /\ IF fault = "render_cpp"
             THEN /\ Throw(Error("TemplateError", "render of HeavyDaisy.cpp failed"))
                  /\ UNCHANGED <<disk, done>>
             ELSE /\ tree' = Put(tree, Join("source", name),
                                 File("cpp", Render("HeavyDaisy.cpp", context), ncalls))
                  /\ pc' = "render_makefile"
                  /\ done' = Append(done, "render_cpp")
                  /\ UNCHANGED <<out_exists, exc>>
    /\ UNCHANGED <<inputs, externs, frame, calls, resolver_calls, binder_args>>

\* lines 126-139: the context of the build-description template
MakefileReplacements(daisy_meta, patch_name) ==
    LET m1 == [name |-> patch_name]
        m2 == Put(m1, "linker_script", Get(daisy_meta, "linker_script", ""))
        m3 == IF m2.linker_script # ""
              THEN Put(m2, "linker_script", daisy_meta["linker_script"])
              ELSE m2
        path == Get(daisy_meta, "libdaisy_path", Levels(DefaultLibdaisyLevels))
        m4 == IF path.type = "int"
              THEN Put(m3, "libdaisy_path", LibdaisyLevelsPath(path.n))
              ELSE IF path.type = "str"
                   THEN Put(m3, "libdaisy_path", <<path.s>>)
                   ELSE m3
        m5 == Put(m4, "bootloader", Get(daisy_meta, "bootloader", ""))
    IN Put(m5, "debug_printing", Get(daisy_meta, "debug_printing", FALSE))

\* lines 126-143: the Makefile is rendered and written
RenderMakefile ==
    /\ pc = "render_makefile"
    /\ LET makefile_replacements ==
               MakefileReplacements(frame.daisy_meta, frame.patch_name)
       IN /\ frame' = Put(frame, "makefile_replacements", makefile_replacements)
          /\ renders' = Append(renders, [template |-> "Makefile",
                                         context |-> makefile_replacements])
          /\ IF fault = "render_makefile"
             THEN /\ Throw(Error("TemplateError", "render of Makefile failed"))
                  /\ UNCHANGED <<disk, done>>
             ELSE /\ tree' = Put(tree, Join("source", "Makefile"),
                                 File("makefile",
                                      Render("Makefile", makefile_replacements), ncalls))
                  /\ pc' = "return"
                  /\ done' = Append(done, "render_makefile")
                  /\ UNCHANGED <<out_exists, exc>>
    /\ UNCHANGED <<inputs, externs, calls, resolver_calls, binder_args>>

\* lines 147-160 (compile_time, a clock reading, is left out)
SuccessReport ==
    [ stage |-> "c2daisy",
      notifs |-> [has_error |-> FALSE, exception |-> None, warnings |-> <<>>,
                  errors |-> <<>>],
      in_dir |-> args.c_src_dir, in_file |-> "", out_dir |-> frame.out_dir,
      out_file |-> "HeavyDaisy_" \o frame.patch_name \o ".hpp" ]

\* lines 163-179: str(e) is the exception's message
ErrorReport ==
    [ stage |-> "c2daisy",
      notifs |-> [has_error |-> TRUE, exception |-> exc, warnings |-> <<>>,
                  errors |-> << [enum |-> -1, message |-> exc[1].message] >>],
      in_dir |-> args.c_src_dir, in_file |-> "", out_dir |-> frame.out_dir,
      out_file |-> "" ]

ReturnOk ==
    /\ pc = "return"
    /\ result' = Some(SuccessReport)
    /\ history' = Append(history, Outcome("ok"))
    /\ pc' = "returned"
    /\ UNCHANGED <<inputs, externs, disk, ncalls, frame, exc, done, logs,
                   externs_before, existed_before>>

\* line 162: except Exception as e
Except ==
    /\ pc = "except"
    /\ result' = Some(ErrorReport)
    /\ history' = Append(history, Outcome("error"))
    /\ pc' = "returned"
    /\ UNCHANGED <<inputs, externs, disk, ncalls, frame, exc, done, logs,
                   externs_before, existed_before>>

Next ==
    \/ Enter
    \/ Copyright
    \/ RemoveExisting
    \/ CopyStatic
    \/ CopySource
    \/ GenerateHeaderFile
    \/ FilterExterns
    \/ ParseParameters
    \/ BuildContext
    \/ WriteHeader
    \/ RenderCpp
    \/ RenderMakefile
    \/ ReturnOk
    \/ Except

Spec == Init /\ [][Next]_vars

\* ------------------------------------------------------------ properties
\* the hardware metadata the caller supplied, read from the arguments
HardwareMeta ==
    IF TruthyDict(args.patch_meta) /\ "daisy" \in DOMAIN args.patch_meta
    THEN args.patch_meta["daisy"].d
    ELSE <<>>

ContextBuilt ==
    /\ "component_glue" \in DOMAIN frame
    /\ "samplerate" \in DOMAIN frame.component_glue

Range(s) == {s[i] : i \in DOMAIN s}

IsPrefix(s, t) == Len(s) <= Len(t) /\ \A i \in DOMAIN s : s[i] = t[i]

\* C1: every call of compile ends by returning a report; no exception leaves
\* compile, whichever collaborator or step faults.
C1_NeverRaises == pc # "raised"

Tiers == {8000, 16000, 32000, 48000, 96000}

LargestTierAtMost(r) ==
    IF r < 8000 THEN 8000
    ELSE CHOOSE t \in Tiers : t <= r /\ \A u \in Tiers : u <= r => u <= t

\* C2: the samplerate placed in the context is a tier, the largest tier that is
\* <= the requested rate, 8000 below the smallest tier, the rate itself when it
\* is a tier, and 48000 when the metadata has no samplerate.
C2_SamplerateTier ==
    ContextBuilt =>
        LET got == frame.component_glue.samplerate
        IN /\ got \in Tiers
           /\ IF "samplerate" \in DOMAIN HardwareMeta
              THEN LET r == HardwareMeta.samplerate
                   IN /\ got = LargestTierAtMost(r)
                      /\ (r < 8000 => got = 8000)
                      /\ (r \in Tiers => got = r)
                      /\ (r >= 8000 => got <= r)
              ELSE got = 48000

C2_Witness ==
    /\ ContextBuilt
    /\ "samplerate" \in DOMAIN HardwareMeta
    /\ HardwareMeta.samplerate = 44100
    /\ frame.component_glue.samplerate = 32000

\* C3: the blocksize placed in the context is the requested blocksize clamped
\* to [1, 256] (1 for every b < 1, b = 0 included), and None only when the
\* metadata has no blocksize.
C3_BlocksizeClamped ==
    ContextBuilt =>
        LET got == frame.component_glue.blocksize
        IN IF "blocksize" \in DOMAIN HardwareMeta
           THEN LET b == HardwareMeta.blocksize
                IN got = Some(IF b < 1 THEN 1 ELSE IF b > 256 THEN 256 ELSE b)
           ELSE got = None

\* C4: the list passed to the binder is the subsequence of the output
\* parameters whose name (the first field) is not a reserved name, whatever the
\* other fields hold.
C4_FilterByName ==
    \A i \in DOMAIN binder_args :
        binder_args[i] =
            SelectSeq(externs_before["parameters"]["out"],
                      LAMBDA t : t[1] \notin hv_midi_messages)

SameResult(a, b) ==
    /\ (a.outcome = "ok") = (b.outcome = "ok")
    /\ a.exists = b.exists
    /\ a.bytes = b.bytes

WrittenKinds == {"static", "c_src", "header", "cpp", "makefile"}

\* C6: once the removal step of a call has completed, the output directory
\* holds only files written by that call, each a static asset, a copied
\* source, the header, the rendered source or the build description.
C6_CleanSlate ==
    (ncalls >= 1 /\ "remove" \in Range(done)) =>
        \A p \in DOMAIN tree :
            /\ tree[p].call = ncalls
            /\ tree[p].data.kind \in WrittenKinds

C6_Witness ==
    /\ ncalls = 1
    /\ existed_before
    /\ pc = "returned"
    /\ ~result[1].notifs.has_error
    /\ DOMAIN tree # {}

StepOrder ==
    << "remove", "copy_static", "copy_source", "generate_header", "filter",
       "parse_parameters", "context", "write_header", "render_cpp",
       "render_makefile" >>

StepOfKind(kind) ==
    CASE kind = "static" -> "copy_static"
      [] kind = "c_src" -> "copy_source"
      [] kind = "header" -> "write_header"
      [] kind = "cpp" -> "render_cpp"
      [] kind = "makefile" -> "render_makefile"
      [] OTHER -> "none"

\* C7: the steps complete in the fixed order; a step that did not complete has
\* left nothing in the output directory or in externs, so nothing after a
\* failed step takes effect; an error report has has_error, the exception,
\* one errors entry (-1, message), an empty out_file and the output directory;
\* a report without error is returned only when every step completed.
C7_NoPartialSuccess ==
    /\ IsPrefix(done, StepOrder)
    /\ \A p \in DOMAIN tree :
           tree[p].call = ncalls /\ ncalls >= 1
               => StepOfKind(tree[p].data.kind) \in Range(done)
    /\ externs # externs_before => "filter" \in Range(done)
    /\ pc = "returned" =>
           LET r == result[1]
           IN IF done = StepOrder
              THEN /\ ~r.notifs.has_error
                   /\ r.notifs.errors = <<>>
              ELSE /\ r.notifs.has_error
                   /\ exc # None
                   /\ r.notifs.exception = exc
                   /\ r.notifs.errors = << [enum |-> -1, message |-> exc[1].message] >>
                   /\ r.out_file = ""
                   /\ r.out_dir = Abspath(Join(args.out_dir, "daisy"))

C7_Witness ==
    /\ pc = "returned"
    /\ fault = "copy_source"
    /\ done = <<"remove", "copy_static">>
    /\ result[1].notifs.has_error
    /\ DOMAIN tree = StaticAssets

\* C8: when a call has ended, the caller's externs holds what it held when the
\* call was entered.
C8_ExternsUnchanged == pc \in {"returned", "raised"} => externs = externs_before

HeaderStepReached == "copy_source" \in Range(done) /\ pc # "generate_header"

\* C9 as stated: a call that reaches header generation makes exactly one
\* resolver call; by file, with the given path, whenever the metadata has a
\* board_file key, and otherwise by name with board, "pod" when absent.
C9_BoardFileWhenSet ==
    /\ Len(resolver_calls) = IF HeaderStepReached THEN 1 ELSE 0
    /\ HeaderStepReached =>
           resolver_calls[1] =
               IF "board_file" \in DOMAIN HardwareMeta
               THEN <<"generate_header_from_file", HardwareMeta.board_file>>
               ELSE <<"generate_header_from_name", Get(HardwareMeta, "board", "pod")>>

\* C9 as amended: by file whenever board_file is set to a non-empty path,
\* whether or not board is set; by name when board_file is absent or empty.
C9_BoardFileWhenNonEmpty ==
    /\ Len(resolver_calls) = IF HeaderStepReached THEN 1 ELSE 0
    /\ HeaderStepReached =>
           resolver_calls[1] =
               IF "board_file" \in DOMAIN HardwareMeta /\ HardwareMeta.board_file # ""
               THEN <<"generate_header_from_file", HardwareMeta.board_file>>
               ELSE <<"generate_header_from_name", Get(HardwareMeta, "board", "pod")>>

C9_Witness ==
    /\ HeaderStepReached
    /\ "board" \in DOMAIN HardwareMeta
    /\ "board_file" \in DOMAIN HardwareMeta
    /\ resolver_calls = << <<"generate_header_from_file", "custom.json">> >>

MakefileKeys == {"name", "linker_script", "libdaisy_path", "bootloader", "debug_printing"}

SourceKeys ==
    { "class_name", "patch_name", "header", "max_channels", "num_output_channels",
      "has_midi", "debug_printing", "usb_midi", "samplerate", "blocksize",
      "copyright" }

\* C10: the context of every render holds every key of its template.
C10_ContextComplete ==
    \A i \in DOMAIN renders :
        (IF renders[i].template = "Makefile" THEN MakefileKeys ELSE SourceKeys)
            \subseteq DOMAIN renders[i].context

====
